---- MODULE Spec2Model ----
(***************************************************************************)
(* Model of the two workflow graphs of agentic-ai-demos:                   *)
(*   - demo-travel-agent: FastAPI chat handler + router-dispatch graph     *)
(*   - Multiagent NFL:    agent -> tools -> agent tool loop                *)
(* Strings the code builds with f-strings are sequences of tokens, a       *)
(* query is a sequence of words, datetime.now() is the variable clock.     *)
(* Python None is the string "None" where the field holds strings and the  *)
(* empty tuple where it holds structured values.                           *)
(***************************************************************************)
EXTENDS Integers, Sequences, FiniteSets, TLC

VARIABLES
    program,             \* which part of the repository runs: "travel", "nfl", "helpers", "scrape", "retry"
    profile,             \* travel exploration profile: "single", "sessions" or "eviction"
    clock,               \* datetime.now(), in seconds
    conversation_store,  \* main.py conversation_store: session id -> <<>> (None) or <<state>>
    pc,                  \* travel: "idle", the graph node about to run, or "END"
    state,               \* travel: the TravelAgentState threaded through the graph run
    session_id,          \* travel: chat_with_agent's local session_id
    trace,               \* travel: nodes executed so far in the current run
    nRequests,           \* travel: chat requests received so far
    resumed,             \* travel: the current request named a session already in the store
    routerPath,          \* travel: how route_query ended: "none", "primary", "fallback"
    chat_response,       \* travel: the ChatResponse of the last finished request
    cleanups_due,        \* travel: cleanup_old_sessions background tasks added and not yet run
    store_order,         \* travel: the keys of conversation_store in dict (insertion) order
    nflState,            \* nfl: NflAgentState (a dict with optional keys)
    nflPc,               \* nfl: the node scheduled next, or "END"
    nflHops,             \* nfl: supersteps executed
    nflStatus,           \* nfl: "running", "done" (invoke returned), "error" (invoke raised)
    nflLast,             \* nfl: the node that completed last ("none" at start)
    nflFailed,           \* nfl: what raised out of graph.invoke: "none", "agent", "tools", "recursion"
    handleAll,           \* nfl: the installed ToolNode default catches tool-body exceptions
    heap,                \* helpers: the Python objects, by address (dicts and lists)
    roots,               \* helpers: addresses of the TravelAgentState dicts created so far
    lastCall,            \* helpers: argument, its contents before the call, and result of the last helper call
    scrape,              \* nfl tools: the last web_scrape call: its arguments, what the fetch did, its result
    retry                \* error_handling: the retry_with_backoff call in progress

travelVars == <<conversation_store, pc, state, session_id, trace, nRequests,
                resumed, routerPath, chat_response, cleanups_due, store_order>>
nflVars == <<nflState, nflPc, nflHops, nflStatus, nflLast, nflFailed, handleAll>>
helperVars == <<heap, roots, lastCall, scrape, retry>>
vars == <<program, profile, clock, travelVars, nflVars, helperVars>>

----------------------------------------------------------------------------
(* Bounds *)

MaxClock == 1
MaxRequests == 2
RecursionLimit == 4
MaxCalls == 2
MaxLog == 4
MaxReentries == 1
MaxHelperCalls == 2
MaxNflLog == 3
MaxEvictionRequests == 4
MaxEvictionClock == 3
KeepSessions == 2        \* stands for the 100 sessions cleanup_old_sessions keeps
MaxAge == 2              \* stands for its 24 * 3600 seconds
MaxPageEvents == 2
MaxChars == 2
MaxRetries == 3

----------------------------------------------------------------------------
(* Generic helpers *)

None == "None"

IsPrefix(s, t) == Len(s) <= Len(t) /\ SubSeq(t, 1, Len(s)) = s

\* dict.get(key, default)
DictGet(d, key, default) == IF key \in DOMAIN d THEN d[key] ELSE default

RECURSIVE Flatten(_)
\* ' '.join(parts): the tokens of all parts, in order
Flatten(parts) ==
    IF parts = <<>> THEN <<>> ELSE Head(parts) \o Flatten(Tail(parts))

\* mutant: seq[:n]
LastN_first(seq, n) ==
    IF Len(seq) <= n THEN seq ELSE SubSeq(seq, 1, n)

\* seq[-n:]
LastN(seq, n) ==
    IF Len(seq) <= n THEN seq ELSE SubSeq(seq, Len(seq) - n + 1, Len(seq))

\* [x for x in seq if Test(x)]
RECURSIVE FilterRole(_, _)
FilterRole(msgs, role) ==
    IF msgs = <<>> THEN <<>>
    ELSE IF Head(msgs).role = role
         THEN <<Head(msgs)>> \o FilterRole(Tail(msgs), role)
         ELSE FilterRole(Tail(msgs), role)

----------------------------------------------------------------------------
(* Query strings *)

\* str.lower() on one word
LowerWord(w) ==
    CASE w = "Book" -> "book"
      [] w = "REFUND" -> "refund"
      [] OTHER -> w

\* query.lower()
Lower(q) == [i \in DOMAIN q |-> LowerWord(q[i])]

\* the routing keywords that occur as substrings of a word
SubstringsOf(w) ==
    CASE w = "book" -> {"book"}
      [] w = "booking" -> {"book", "booking"}
      [] w = "flight" -> {"flight"}
      [] w = "trip" -> {"trip"}
      [] w = "refund" -> {"refund"}
      [] w = "delayed" -> {"delay"}
      [] w = "where" -> {"where"}
      [] OTHER -> {}

\* keyword in query
KwIn(kw, q) == \E i \in DOMAIN q : kw \in SubstringsOf(q[i])

\* any(keyword in query for keyword in keywords)
AnyKw(keywords, q) == \E kw \in keywords : KwIn(kw, q)

----------------------------------------------------------------------------
(* demo-travel-agent: state container (utils/graph_utils.py) *)

NoId == <<>>

create_initial_state(query, sid, now) ==
    [customer_info |-> [customer_id |-> None, name |-> None, email |-> None,
                        phone |-> None, preferences |-> <<>>],
     messages |-> <<>>,
     current_query |-> query,
     query_type |-> None,
     current_agent |-> None,
     agent_responses |-> <<>>,
     booking_info |-> [booking_id |-> <<>>, destination |-> None,
                       departure_date |-> None, return_date |-> None,
                       travelers |-> <<"int", 1>>, booking_status |-> "pending",
                       price |-> None],
     is_complete |-> FALSE,
     error_message |-> None,
     session_id |-> IF sid = NoId THEN <<"uuid4">> ELSE sid,
     created_at |-> now,
     updated_at |-> now]

ConversationMessage(role, content, now, agent_name) ==
    [role |-> role, content |-> content, timestamp |-> now, agent_name |-> agent_name]

\* mutant: the new message is put in front of the log
add_message_to_state_prepend(st, role, content, agent_name, now) ==
    [st EXCEPT !.messages = <<ConversationMessage(role, content, now, agent_name)>> \o st.messages,
               !.updated_at = now]

add_message_to_state(st, role, content, agent_name, now) ==
    [st EXCEPT !.messages = st.messages \o <<ConversationMessage(role, content, now, agent_name)>>,
               !.updated_at = now]

\* mutant: the helper stamps created_at as well
update_state_field_restamp(st, field, value, now) ==
    [[st EXCEPT ![field] = value] EXCEPT !.updated_at = now, !.created_at = now]

update_state_field(st, field, value, now) ==
    [[st EXCEPT ![field] = value] EXCEPT !.updated_at = now]

\* LangGraph merges a node's returned dict into TravelAgentState: no key has a
\* reducer, so every returned key overwrites the stored one.
MergeTravel(st, delta) ==
    [k \in DOMAIN st \cup DOMAIN delta |-> IF k \in DOMAIN delta THEN delta[k] ELSE st[k]]

----------------------------------------------------------------------------
(* demo-travel-agent: router (agents/router.py) *)

Categories == {"booking", "complaint", "information"}

booking_keywords ==
    {"book", "reserve", "booking", "flight", "hotel", "tour", "package",
     "vacation", "trip", "travel", "reservation", "ticket"}

complaint_keywords ==
    {"complaint", "problem", "issue", "cancel", "refund", "delay",
     "wrong", "mistake", "error", "dissatisfied", "angry", "upset",
     "terrible", "awful", "horrible"}

RoutingMessage(agent, reasoning) ==
    <<"Router:", "this is a", agent, "request.", reasoning>>

\* mutant: the complaint keywords are looked for first
FallbackDecision_complaint_first(query) ==
    IF AnyKw(complaint_keywords, query)
    THEN <<"complaint", "Detected complaint-related keywords">>
    ELSE IF AnyKw(booking_keywords, query)
         THEN <<"booking", "Detected booking-related keywords">>
         ELSE <<"information", "Defaulting to information agent">>

\* mutant: the else branch leaves the decision unset
FallbackDecision_no_default(query) ==
    IF AnyKw(booking_keywords, query)
    THEN <<"booking", "Detected booking-related keywords">>
    ELSE IF AnyKw(complaint_keywords, query)
         THEN <<"complaint", "Detected complaint-related keywords">>
         ELSE <<None, "No keywords detected">>

\* the (agent, reasoning) pair the keyword fallback selects
FallbackDecision(query) ==
    IF AnyKw(booking_keywords, query)
    THEN <<"booking", "Detected booking-related keywords">>
    ELSE IF AnyKw(complaint_keywords, query)
         THEN <<"complaint", "Detected complaint-related keywords">>
         ELSE <<"information", "Defaulting to information agent">>

_fallback_routing(st, now) ==
    LET query == Lower(st.current_query)
        d == FallbackDecision(query)
        s1 == update_state_field(st, "query_type", d[1], now)
        s2 == update_state_field(s1, "current_agent", d[1], now)
    IN add_message_to_state(s2, "agent", RoutingMessage(d[1], d[2]), "router", now)

\* the try block of route_query ran to its return: the chain gave a JSON object
PrimaryRouting(st, routing_result, now) ==
    LET agent == DictGet(routing_result, "agent", "information")
        reasoning == DictGet(routing_result, "reasoning", "Default routing decision")
        s1 == update_state_field(st, "query_type", agent, now)
        s2 == update_state_field(s1, "current_agent", agent, now)
    IN add_message_to_state(s2, "agent", RoutingMessage(agent, reasoning), "router", now)

\* llm.kind: "dict" (parsed JSON object), "nondict" (parsed JSON that has no
\* .get), "error" (the call or the parser raised)
RouterTakesPrimary(llm) == llm.kind = "dict"

route_query(st, llm, now) ==
    IF RouterTakesPrimary(llm)
    THEN PrimaryRouting(st, llm.dict, now)
    ELSE _fallback_routing(st, now)

----------------------------------------------------------------------------
(* demo-travel-agent: booking agent (agents/booking.py) *)

\* Python truthiness of an optional string
Truthy(x) == x \notin {None, ""}

\* Python truthiness of a JSON number or string, held as <<"int", n>> or <<"str", n>>
TruthyNum(v) == v[1] = "str" \/ v[2] # 0

_update_booking_info(current_booking, extracted_info, now) ==
    LET u1 == IF "destination" \in DOMAIN extracted_info /\ Truthy(extracted_info["destination"])
              THEN [current_booking EXCEPT !.destination = extracted_info["destination"]]
              ELSE current_booking
        u2 == IF "departure_date" \in DOMAIN extracted_info /\ Truthy(extracted_info["departure_date"])
              THEN [u1 EXCEPT !.departure_date = extracted_info["departure_date"]]
              ELSE u1
        u3 == IF "return_date" \in DOMAIN extracted_info /\ Truthy(extracted_info["return_date"])
              THEN [u2 EXCEPT !.return_date = extracted_info["return_date"]]
              ELSE u2
        u4 == IF "travelers" \in DOMAIN extracted_info /\ TruthyNum(extracted_info["travelers"])
              THEN [u3 EXCEPT !.travelers = extracted_info["travelers"]]
              ELSE u3
    IN IF u4.booking_id = <<>> /\ Truthy(u4.destination)
       THEN [u4 EXCEPT !.booking_id = <<"BK", now>>]
       ELSE u4

\* booking["travelers"] > 1 raises TypeError when the value is a str
GenerateBookingResponseRaises(booking) ==
    TruthyNum(booking.travelers) /\ booking.travelers[1] = "str"

_generate_booking_response(booking, extracted_info) ==
    <<"Booking Agent:">>
    \o (IF Truthy(booking.destination) THEN <<"Destination:", booking.destination>> ELSE <<>>)
    \o (IF Truthy(booking.departure_date) THEN <<"Departure:", booking.departure_date>> ELSE <<>>)
    \o (IF Truthy(booking.return_date) THEN <<"Return:", booking.return_date>> ELSE <<>>)
    \o (IF TruthyNum(booking.travelers) /\ booking.travelers[2] > 1
        THEN <<"Travelers:", ToString(booking.travelers[2])>> ELSE <<>>)
    \o (IF booking.booking_id # <<>>
        THEN <<"Booking ID:", "BK", ToString(booking.booking_id[2]), "Your booking is being processed.">>
        ELSE <<"I need more information to process your booking.">>)

BookingApology == <<"I apologize, but I'm having trouble processing your booking request.">>

process_booking_request(st, llm, now) ==
    IF llm.kind # "dict"
    THEN \* the chain raised, or `"destination" in 5` raised: state not yet rebound
         add_message_to_state(st, "agent", BookingApology, "booking_agent", now)
    ELSE LET updated_booking == _update_booking_info(st.booking_info, llm.dict, now)
             s1 == update_state_field(st, "booking_info", updated_booking, now)
         IN IF GenerateBookingResponseRaises(updated_booking)
            THEN \* except block: the local name state is already rebound to s1
                 add_message_to_state(s1, "agent", BookingApology, "booking_agent", now)
            ELSE add_message_to_state(s1, "agent",
                     _generate_booking_response(updated_booking, llm.dict), "booking_agent", now)

----------------------------------------------------------------------------
(* demo-travel-agent: complaint agent (agents/complaint.py) *)

ComplaintApology == <<"I apologize for the inconvenience.", "support@travelcompany.com">>

\* llm2: the second chain call ([kind |-> "ok", content |-> c] or [kind |-> "error"])
_handle_critical_complaint(st, llm2, now) ==
    add_message_to_state(st, "agent",
        <<"Complaint Agent:", "critical issue", llm2.content, "escalated">>,
        "complaint_agent", now)

_handle_refund_cancellation(st, analysis, now) ==
    add_message_to_state(st, "agent",
        IF DictGet(analysis, "complaint_type", None) = "refund"
        THEN <<"Complaint Agent:", "requesting a refund">>
        ELSE <<"Complaint Agent:", "cancel your booking">>,
        "complaint_agent", now)

_provide_standard_resolution(st, llm2, now) ==
    add_message_to_state(st, "agent", <<"Complaint Agent:", llm2.content>>,
        "complaint_agent", now)

handle_complaint(st, llm, llm2, now) ==
    IF llm.kind = "error"
    THEN add_message_to_state(st, "agent", ComplaintApology, "complaint_agent", now)
    ELSE LET analysis_result == IF llm.kind = "dict" THEN llm.dict ELSE <<"nondict">>
             s1 == update_state_field(st, "agent_responses",
                       [k \in DOMAIN st.agent_responses \cup {"complaint_analysis"} |->
                           IF k = "complaint_analysis" THEN analysis_result
                           ELSE st.agent_responses[k]], now)
             \* except block: the local name state is already rebound to s1
             apology == add_message_to_state(s1, "agent", ComplaintApology, "complaint_agent", now)
         IN IF llm.kind # "dict"
            THEN apology    \* analysis_result.get raised AttributeError
            ELSE LET complaint_type == DictGet(llm.dict, "complaint_type", "other")
                     severity == DictGet(llm.dict, "severity", "medium")
                     urgency == DictGet(llm.dict, "urgency", "response_within_24h")
                 IN IF severity = "critical" \/ urgency = "immediate_action_required"
                    THEN IF llm2.kind = "error" THEN apology
                         ELSE _handle_critical_complaint(s1, llm2, now)
                    ELSE IF complaint_type \in {"refund", "cancellation"}
                         THEN _handle_refund_cancellation(s1, llm.dict, now)
                         ELSE IF llm2.kind = "error" THEN apology
                              ELSE _provide_standard_resolution(s1, llm2, now)

----------------------------------------------------------------------------
(* demo-travel-agent: information agent (agents/information.py) *)

InformationApology == <<"I apologize, but I'm having trouble retrieving that travel information.">>

\* the handlers that call the model a second time
InfoNeedsModel == {"destination_info", "recommendations", "travel_tips"}

provide_information(st, llm, llm2, now) ==
    LET apology == add_message_to_state(st, "agent", InformationApology, "information_agent", now)
    IN IF llm.kind # "dict"
       THEN apology
       ELSE LET query_type == DictGet(llm.dict, "query_type", "general_travel")
                destination == DictGet(llm.dict, "destination", None)
            IN IF query_type \in InfoNeedsModel
               THEN IF llm2.kind = "error" THEN apology
                    ELSE add_message_to_state(st, "agent",
                             <<"Information Agent:", query_type, destination, llm2.content>>,
                             "information_agent", now)
               ELSE IF query_type \in {"requirements", "weather_seasonal"}
                    THEN add_message_to_state(st, "agent",
                             <<"Information Agent:", query_type, destination>>,
                             "information_agent", now)
                    ELSE add_message_to_state(st, "agent",
                             <<"Information Agent:", "I'd be happy to help with your travel questions!">>,
                             "information_agent", now)

----------------------------------------------------------------------------
(* demo-travel-agent: the graph (graph.py) *)

RECURSIVE Contents(_)
\* [msg["content"] for msg in msgs]
Contents(msgs) ==
    IF msgs = <<>> THEN <<>> ELSE <<Head(msgs).content>> \o Contents(Tail(msgs))

\* mutant: the finalizer's own messages count as responses too
FinalResponseText_with_assistant(messages) ==
    <<"Final Response:">>
    \o Flatten(LastN(Contents(SelectSeq(messages, LAMBDA m : m.role \in {"agent", "assistant"})), 3))

\* f"Final Response: {' '.join(responses[-3:])}"
FinalResponseText(messages) ==
    <<"Final Response:">> \o Flatten(LastN(Contents(FilterRole(messages, "agent")), 3))

_final_response_agent(st, now) ==
    update_state_field(
        add_message_to_state(st, "assistant", FinalResponseText(st.messages), "final_response", now),
        "is_complete", TRUE, now)

\* mutant: a query without keywords gets the router agent's label "general"
_route_to_agent_general(st) ==
    LET query == Lower(st.current_query)
    IN IF AnyKw({"book", "reserve", "booking", "flight", "hotel"}, query) THEN "booking"
       ELSE IF AnyKw({"complaint", "problem", "issue", "cancel", "refund"}, query) THEN "complaint"
       ELSE IF AnyKw({"information", "recommend", "suggest", "where", "how"}, query) THEN "information"
       ELSE "general"

_route_to_agent(st) ==
    LET query == Lower(st.current_query)
    IN IF AnyKw({"book", "reserve", "booking", "flight", "hotel"}, query) THEN "booking"
       ELSE IF AnyKw({"complaint", "problem", "issue", "cancel", "refund"}, query) THEN "complaint"
       ELSE IF AnyKw({"information", "recommend", "suggest", "where", "how"}, query) THEN "information"
       ELSE "complete"

\* mutant: a specialized agent asks for more routing
_agent_continue_or_complete_continue(st) == "continue"

_agent_continue_or_complete(st) == "complete"

\* add_conditional_edges("router", ...) label -> node
RouterEdges ==
    [booking |-> "booking_agent", complaint |-> "complaint_agent",
     information |-> "information_agent", complete |-> "final_response"]

\* add_conditional_edges(<specialized agent>, ...) label -> node
AgentEdges == [continue |-> "router", complete |-> "final_response"]

\* a conditional edge: the routing function's label looked up in the mapping
Lookup(mapping, label) ==
    IF label \in DOMAIN mapping THEN mapping[label] ELSE "graph_contract_error"

\* the specialized agent node of a routing category
AgentNode(category) ==
    CASE category = "booking" -> "booking_agent"
      [] category = "complaint" -> "complaint_agent"
      [] category = "information" -> "information_agent"
      [] OTHER -> "none"

----------------------------------------------------------------------------
(* Multiagent NFL: messages and tools (agent.py) *)

HumanMessage(content) ==
    [type |-> "human", content |-> content, tool_calls |-> <<>>,
     tool_call_id |-> <<>>, name |-> None, status |-> None]

AIMessage(content, tool_calls) ==
    [type |-> "ai", content |-> content, tool_calls |-> tool_calls,
     tool_call_id |-> <<>>, name |-> None, status |-> None]

ToolMessage(content, name, tool_call_id, status) ==
    [type |-> "tool", content |-> content, tool_calls |-> <<>>,
     tool_call_id |-> tool_call_id, name |-> name, status |-> status]

\* tools = [web_search, web_scrape, current_datetime]  (mcp_nfl_query is commented out)
RegisteredTools == {"web_search", "web_scrape", "current_datetime"}

\* parameters without a default in each tool's signature
RequiredParams(name) ==
    CASE name = "web_search" -> {"query"}
      [] name = "web_scrape" -> {"url"}
      [] name = "mcp_nfl_query" -> {"endpoint"}
      [] OTHER -> {}

\* declared type of each parameter in each tool's signature
ParamTypes(name) ==
    CASE name = "web_search" -> [query |-> "str", max_results |-> "int"]
      [] name = "web_scrape" -> [url |-> "str", max_chars |-> "int"]
      [] name = "mcp_nfl_query" -> [endpoint |-> "str", params |-> "dict"]
      [] name = "current_datetime" -> [tz |-> "str", iso |-> "bool"]
      [] OTHER -> <<>>

\* JSON strings the args schema converts to an int
IntLiterals == {"3"}

\* the args schema accepts JSON string v for a parameter of the declared type
Accepts(type, v) ==
    CASE type = "str" -> TRUE
      [] type = "int" -> v \in IntLiterals
      [] OTHER -> FALSE

\* the call's arguments pass the tool's args schema: every parameter without a
\* default is given and every given parameter has an acceptable value
ArgsValid(call) ==
    /\ RequiredParams(call.name) \subseteq DOMAIN call.args
    /\ \A p \in DOMAIN call.args \cap DOMAIN ParamTypes(call.name) :
          Accepts(ParamTypes(call.name)[p], call.args[p])

\* what running a tool body can do: return a string ("ok") or raise ("raise")
BodyOutcomes(name) ==
    CASE name = "web_search" -> {"ok", "raise"}     \* _fetch_url is not guarded
      [] name = "web_scrape" -> {"ok"}              \* guarded by its own try/except
      [] OTHER -> {"ok"}

\* ToolNode on one tool call; outcome is what the tool body does if it is run.
\* The result is a ToolMessage, or <<>> when the exception leaves the node.
RunOneTool(call, outcome, catchAll) ==
    IF call.name \notin RegisteredTools
    THEN <<ToolMessage(<<"Error:", call.name, "is not a valid tool">>,
                       call.name, call.id, "error")>>
    ELSE IF ~ArgsValid(call)
    THEN <<ToolMessage(<<"Error invoking tool", call.name, "validation error">>,
                       call.name, call.id, "error")>>
    ELSE IF outcome = "ok"
    THEN <<ToolMessage(<<"result of", call.name>>, call.name, call.id, "success")>>
    ELSE IF catchAll
    THEN <<ToolMessage(<<"Error:", call.name, "raised">>, call.name, call.id, "error")>>
    ELSE <<>>

\* does the call's tool body run at all
BodyRuns(call) ==
    call.name \in RegisteredTools /\ ArgsValid(call)

\* mutant: the node returns as soon as all calls but the last one are done
ToolNodeRun_partial(calls, outcomes, catchAll) ==
    LET results == [i \in DOMAIN calls |-> RunOneTool(calls[i], outcomes[i], catchAll)]
    IN IF \E i \in DOMAIN calls : results[i] = <<>>
       THEN [raised |-> TRUE, messages |-> <<>>]
       ELSE [raised |-> FALSE, messages |-> [i \in 1..(Len(calls) - 1) |-> results[i][1]]]

\* ToolNode(tools): one result per call of the last AI message, in request order
\* (executor.map); raised |-> TRUE when an exception leaves the node
ToolNodeRun(calls, outcomes, catchAll) ==
    LET results == [i \in DOMAIN calls |-> RunOneTool(calls[i], outcomes[i], catchAll)]
    IN IF \E i \in DOMAIN calls : results[i] = <<>>
       THEN [raised |-> TRUE, messages |-> <<>>]
       ELSE [raised |-> FALSE, messages |-> [i \in DOMAIN calls |-> results[i][1]]]

\* str.strip()
Strip(c) == IF c = " padded answer " THEN "padded answer" ELSE c

\* agent_node's return value for a model response
agent_node(response) == [messages |-> <<response>>]

\* mutant: the last message is taken for the answer whatever its type
finalize_any_last(st) ==
    LET messages == DictGet(st, "messages", <<>>)
    IN IF messages # <<>>
       THEN [final_answer |-> Strip(messages[Len(messages)].content)]
       ELSE [final_answer |-> ""]

\* mutant: the content is returned as it is
finalize_keep_whitespace(st) ==
    LET messages == DictGet(st, "messages", <<>>)
    IN IF messages # <<>> /\ messages[Len(messages)].type = "ai"
       THEN [final_answer |-> messages[Len(messages)].content]
       ELSE [final_answer |-> ""]

finalize(st) ==
    LET messages == DictGet(st, "messages", <<>>)
    IN IF messages # <<>> /\ messages[Len(messages)].type = "ai"
       THEN [final_answer |-> Strip(messages[Len(messages)].content)]
       ELSE [final_answer |-> ""]

\* mutant: tool calls of the last message are ignored
should_continue_ignore_calls(st) ==
    LET messages == DictGet(st, "messages", <<>>)
    IN IF messages = <<>> THEN "finalize"
       ELSE IF messages[Len(messages)].type = "ai" /\ messages[Len(messages)].content = ""
            THEN "finalize"
            ELSE "tools"

should_continue(st) ==
    LET messages == DictGet(st, "messages", <<>>)
    IN IF messages = <<>> THEN "finalize"
       ELSE IF messages[Len(messages)].type = "ai" /\ messages[Len(messages)].tool_calls # <<>>
            THEN "tools"
            ELSE "finalize"

\* add_conditional_edges("agent", should_continue, {...})
NflEdges == [tools |-> "tools", finalize |-> "finalize"]

\* LangGraph merges a node's returned dict into NflAgentState: messages has the
\* reducer operator.add, final_answer is overwritten
MergeNfl(st, delta) ==
    [k \in DOMAIN st \cup DOMAIN delta |->
        IF k \notin DOMAIN delta THEN st[k]
        ELSE IF k = "messages" THEN DictGet(st, "messages", <<>>) \o delta[k]
        ELSE delta[k]]

----------------------------------------------------------------------------
(* Inputs *)

\* "single": one chat request over the wide input sets;
\* "sessions": up to MaxRequests chat requests over the narrow ones
RequestsOf(p) ==
    CASE p = "single" -> 1
      [] p = "eviction" -> MaxEvictionRequests
      [] OTHER -> MaxRequests

\* how far the clock runs in each profile
ClockLimit(p) == IF p = "eviction" THEN MaxEvictionClock ELSE MaxClock

Queries(p) ==
    IF p = "eviction" THEN {<<"where">>}
    ELSE IF p = "single"
    THEN {<<>>, <<"hello">>, <<"Book", "flight">>, <<"trip">>, <<"delayed">>,
          <<"REFUND">>, <<"REFUND", "flight">>, <<"trip", "refund">>, <<"where">>}
    ELSE {<<"Book", "flight">>, <<"where">>}

Failed == [kind |-> "error"]
NonDict == [kind |-> "nondict"]
Json(d) == [kind |-> "dict", dict |-> d]
Text(c) == [kind |-> "ok", content |-> c]

\* outcomes of routing_chain.invoke
RouterLLM(p) ==
    IF p = "single"
    THEN {Failed, NonDict, Json(<<>>),
          Json([agent |-> "booking"]),
          Json([agent |-> "complaint", reasoning |-> "customer is unhappy"]),
          Json([agent |-> "information"]),
          Json([agent |-> "general"]),
          Json([agent |-> None])}
    ELSE {Failed}

\* outcomes of booking_chain.invoke
BookingLLM(p) ==
    IF p = "single"
    THEN {Failed, NonDict, Json(<<>>),
          Json([destination |-> "Paris", travelers |-> <<"int", 2>>]),
          Json([destination |-> "Paris", travelers |-> <<"str", 2>>]),
          Json([destination |-> "Rome", travelers |-> <<"int", 3>>]),
          Json([travelers |-> <<"int", 0>>])}
    ELSE {Failed, Json([destination |-> "Paris", travelers |-> <<"int", 2>>])}

\* outcomes of analysis_chain.invoke in the complaint agent
ComplaintLLM(p) ==
    IF p = "single"
    THEN {Failed, NonDict, Json(<<>>),
          Json([severity |-> "critical"]),
          Json([complaint_type |-> "refund"]),
          Json([complaint_type |-> "cancellation", severity |-> "low"])}
    ELSE {Failed}

\* outcomes of analysis_chain.invoke in the information agent
InformationLLM(p) ==
    IF p = "single"
    THEN {Failed, NonDict, Json(<<>>),
          Json([query_type |-> "destination_info", destination |-> "Paris"]),
          Json([query_type |-> "requirements"])}
    ELSE IF p = "eviction" THEN {Failed}
    ELSE {Failed, Json(<<>>)}

\* outcomes of the second chain call of a node
SecondLLM == {Failed, Text("model text")}

\* session ids a client can send: none, one the store knows, one it does not
RequestIds ==
    (IF profile = "eviction" THEN {NoId} ELSE {NoId, <<"client", 0>>}) \cup DOMAIN conversation_store

----------------------------------------------------------------------------
(* demo-travel-agent: the chat handler and the graph run (main.py, graph.py) *)

NoState == create_initial_state(<<>>, NoId, 0)
NoResponse == [response |-> <<>>, session_id |-> NoId, agent_used |-> None,
               is_complete |-> FALSE, booking_info |-> <<>>]

\* web_scrape has not been called
NoScrape == [url |-> "", max_chars |-> 0, fetched |-> [kind |-> "none"], result |-> [type |-> "none"]]

\* retry_with_backoff has not been called
NoRetry == [max_retries |-> 0, outcomes |-> <<>>, attempt |-> 0, calls |-> 0,
            slept |-> 0, status |-> "idle", result |-> None]

\* no helper call has been made
NoCall == [arg |-> 0, before |-> <<>>, ret |-> 0]

\* mutant: handlers and background tasks start while another one is running
LoopFree_threaded == program = "travel"

\* chat_with_agent and cleanup_old_sessions are coroutines (async def) without
\* an await in their bodies: the event loop starts one only when no other is
\* running, and each runs to its end
LoopFree == program = "travel" /\ pc = "idle"

\* chat_with_agent up to graph.invoke: resolve the session, build the initial state
ChatBegin(message, rsid) ==
    /\ LoopFree
    /\ nRequests < RequestsOf(profile)
    /\ LET fresh == rsid = NoId \/ rsid \notin DOMAIN conversation_store
           sid == IF fresh THEN <<"session", clock>> ELSE rsid
       IN /\ session_id' = sid
          /\ resumed' = ~fresh
          /\ conversation_store' =
                IF fresh
                THEN [k \in DOMAIN conversation_store \cup {sid} |->
                         IF k = sid THEN <<>> ELSE conversation_store[k]]
                ELSE conversation_store
          /\ store_order' =
                IF fresh /\ sid \notin DOMAIN conversation_store
                THEN Append(store_order, sid) ELSE store_order
          /\ state' = add_message_to_state(create_initial_state(message, sid, clock),
                                           "user", message, None, clock)
    /\ pc' = "router"
    /\ trace' = <<>>
    /\ routerPath' = "none"
    /\ nRequests' = nRequests + 1
    /\ UNCHANGED <<helperVars, program, profile, clock, chat_response, cleanups_due, nflVars>>

RouterNode ==
    /\ program = "travel" /\ pc = "router"
    /\ \E llm \in RouterLLM(profile) :
          /\ state' = MergeTravel(state, route_query(state, llm, clock))
          /\ routerPath' = IF RouterTakesPrimary(llm) THEN "primary" ELSE "fallback"
    /\ pc' = Lookup(RouterEdges, _route_to_agent(state'))
    /\ trace' = Append(trace, "router")
    /\ UNCHANGED <<helperVars, program, profile, clock, cleanups_due, store_order, conversation_store, session_id, nRequests,
                   resumed, chat_response, nflVars>>

BookingNode ==
    /\ program = "travel" /\ pc = "booking_agent"
    /\ \E llm \in BookingLLM(profile) :
          state' = MergeTravel(state, process_booking_request(state, llm, clock))
    /\ pc' = Lookup(AgentEdges, _agent_continue_or_complete(state'))
    /\ trace' = Append(trace, "booking_agent")
    /\ UNCHANGED <<helperVars, program, profile, clock, cleanups_due, store_order, conversation_store, session_id, nRequests,
                   resumed, routerPath, chat_response, nflVars>>

ComplaintNode ==
    /\ program = "travel" /\ pc = "complaint_agent"
    /\ \E llm \in ComplaintLLM(profile), llm2 \in SecondLLM :
          state' = MergeTravel(state, handle_complaint(state, llm, llm2, clock))
    /\ pc' = Lookup(AgentEdges, _agent_continue_or_complete(state'))
    /\ trace' = Append(trace, "complaint_agent")
    /\ UNCHANGED <<helperVars, program, profile, clock, cleanups_due, store_order, conversation_store, session_id, nRequests,
                   resumed, routerPath, chat_response, nflVars>>

InformationNode ==
    /\ program = "travel" /\ pc = "information_agent"
    /\ \E llm \in InformationLLM(profile), llm2 \in SecondLLM :
          state' = MergeTravel(state, provide_information(state, llm, llm2, clock))
    /\ pc' = Lookup(AgentEdges, _agent_continue_or_complete(state'))
    /\ trace' = Append(trace, "information_agent")
    /\ UNCHANGED <<helperVars, program, profile, clock, cleanups_due, store_order, conversation_store, session_id, nRequests,
                   resumed, routerPath, chat_response, nflVars>>

FinalResponseNode ==
    /\ program = "travel" /\ pc = "final_response"
    /\ state' = MergeTravel(state, _final_response_agent(state, clock))
    /\ pc' = "END"
    /\ trace' = Append(trace, "final_response")
    /\ UNCHANGED <<helperVars, program, profile, clock, cleanups_due, store_order, conversation_store, session_id, nRequests,
                   resumed, routerPath, chat_response, nflVars>>

\* chat_with_agent after graph.invoke: store the state, build the ChatResponse
ChatResponse(result_state, sid) ==
    LET agent_messages == FilterRole(result_state.messages, "agent")
    IN [response |-> IF agent_messages # <<>>
                     THEN agent_messages[Len(agent_messages)].content
                     ELSE <<"I'm sorry, I couldn't process your request.">>,
        session_id |-> sid,
        agent_used |-> result_state.current_agent,
        is_complete |-> result_state.is_complete,
        booking_info |-> IF Truthy(result_state.booking_info.destination)
                         THEN <<result_state.booking_info>> ELSE <<>>]

ChatEnd ==
    /\ program = "travel" /\ pc = "END"
    /\ conversation_store' = [conversation_store EXCEPT ![session_id] = <<state>>]
    /\ chat_response' = ChatResponse(state, session_id)
    /\ pc' = "idle"
    /\ state' = NoState
    /\ session_id' = NoId
    /\ trace' = <<>>
    /\ resumed' = FALSE
    /\ routerPath' = "none"
    /\ cleanups_due' = cleanups_due + 1      \* background_tasks.add_task(cleanup_old_sessions)
    /\ UNCHANGED <<helperVars, program, profile, clock, nRequests, store_order, nflVars>>

\* the key cleanup_old_sessions sorts by: updated_at, datetime.min for None
UpdatedKey(store, k) == IF store[k] = <<>> THEN -1 ELSE store[k][1].updated_at

\* key k put into a sequence sorted newest first, behind the keys that are not older
RECURSIVE InsertDesc(_, _, _)
InsertDesc(sorted, k, store) ==
    IF sorted = <<>> THEN <<k>>
    ELSE IF UpdatedKey(store, Head(sorted)) >= UpdatedKey(store, k)
         THEN <<Head(sorted)>> \o InsertDesc(Tail(sorted), k, store)
         ELSE <<k>> \o sorted

\* sorted(items, key=updated_at, reverse=True): stable, newest first
RECURSIVE SortedDesc(_, _)
SortedDesc(order, store) ==
    IF order = <<>> THEN <<>>
    ELSE InsertDesc(SortedDesc(SubSeq(order, 1, Len(order) - 1), store), order[Len(order)], store)

\* the keys of order that are in keep, in order
RECURSIVE KeepKeys(_, _)
KeepKeys(order, keep) ==
    IF order = <<>> THEN <<>>
    ELSE (IF Head(order) \in keep THEN <<Head(order)>> ELSE <<>>) \o KeepKeys(Tail(order), keep)

\* sessions the first loop of cleanup_old_sessions removes
Expired(store, now) ==
    {k \in DOMAIN store : store[k] # <<>> /\ now - store[k][1].updated_at > MaxAge}

\* mutant: the sessions are sorted oldest first before the cut
cleanup_old_sessions_keep_oldest(store, order, now) ==
    LET order1 == KeepKeys(order, DOMAIN store \ Expired(store, now))
    IN IF Len(order1) > KeepSessions
       THEN LET sorted == SortedDesc(order1, store)
                kept == SubSeq(sorted, Len(sorted) - KeepSessions + 1, Len(sorted))
            IN [store |-> [k \in {kept[i] : i \in DOMAIN kept} |-> store[k]], order |-> kept]
       ELSE [store |-> [k \in {order1[i] : i \in DOMAIN order1} |-> store[k]], order |-> order1]

\* cleanup_old_sessions: the store and its key order after the task
cleanup_old_sessions(store, order, now) ==
    LET order1 == KeepKeys(order, DOMAIN store \ Expired(store, now))
    IN IF Len(order1) > KeepSessions
       THEN LET kept == SubSeq(SortedDesc(order1, store), 1, KeepSessions)
            IN [store |-> [k \in {kept[i] : i \in DOMAIN kept} |-> store[k]], order |-> kept]
       ELSE [store |-> [k \in {order1[i] : i \in DOMAIN order1} |-> store[k]], order |-> order1]

\* the background task added by a chat request runs; with at most KeepSessions
\* sessions none older than MaxAge it leaves the store as it is, so only
\* SpecSessions, whose bounds exceed both, takes the step
Cleanup ==
    /\ LoopFree
    /\ cleanups_due > 0
    /\ LET r == cleanup_old_sessions(conversation_store, store_order, clock)
       IN /\ conversation_store' = r.store
          /\ store_order' = r.order
    /\ cleanups_due' = cleanups_due - 1
    /\ UNCHANGED <<helperVars, program, profile, clock, pc, state, session_id, trace, nRequests,
                   resumed, routerPath, chat_response, nflVars>>

\* time passes
Tick ==
    /\ program = "travel"
    /\ clock < ClockLimit(profile)
    /\ clock' = clock + 1
    /\ UNCHANGED <<helperVars, program, profile, travelVars, nflVars>>

----------------------------------------------------------------------------
(* Multiagent NFL: the tool loop run by graph.invoke (agent.py) *)

\* tool calls a model turn can carry (name and arguments)
CallKinds ==
    {[name |-> "web_search", args |-> [query |-> "passing leader"]],
     [name |-> "web_search", args |-> [max_results |-> "3"]],
     [name |-> "web_search", args |-> [query |-> "passing leader", max_results |-> "many"]],
     [name |-> "mcp_nfl_query", args |-> [endpoint |-> "/passing-leaders"]]}

\* the tool-call lists of one model turn, before the model gives them ids:
\* up to MaxCalls different calls
TurnCalls ==
    {s \in UNION {[1..n -> CallKinds] : n \in 1..MaxCalls} :
        \A i, j \in DOMAIN s : i # j => s[i] # s[j]}

FinalAnswers == {"Today is 2025-01-01.", " padded answer "}

\* the model gives every call of a turn its own id
WithIds(kinds, turn) ==
    [i \in DOMAIN kinds |-> [name |-> kinds[i].name, args |-> kinds[i].args, id |-> <<turn, i>>]]

LastMessage(st) == st.messages[Len(st.messages)]

NflRunning == program = "nfl" /\ nflStatus = "running" /\ nflHops < RecursionLimit

\* agent node: the model answers with tool calls
AgentRequestsTools ==
    /\ NflRunning /\ nflPc = "agent"
    /\ \E kinds \in TurnCalls :
          nflState' = MergeNfl(nflState, agent_node(AIMessage("", WithIds(kinds, nflHops + 1))))
    /\ nflPc' = Lookup(NflEdges, should_continue(nflState'))
    /\ nflHops' = nflHops + 1
    /\ nflLast' = "agent"
    /\ UNCHANGED <<helperVars, program, profile, clock, travelVars, nflStatus, nflFailed, handleAll>>

\* agent node: the model answers with text only
AgentAnswers ==
    /\ NflRunning /\ nflPc = "agent"
    /\ \E c \in FinalAnswers :
          nflState' = MergeNfl(nflState, agent_node(AIMessage(c, <<>>)))
    /\ nflPc' = Lookup(NflEdges, should_continue(nflState'))
    /\ nflHops' = nflHops + 1
    /\ nflLast' = "agent"
    /\ UNCHANGED <<helperVars, program, profile, clock, travelVars, nflStatus, nflFailed, handleAll>>

\* agent node: model_with_tools.invoke raises; nothing in agent.py catches it
AgentRaises ==
    /\ NflRunning /\ nflPc = "agent"
    /\ nflStatus' = "error"
    /\ nflFailed' = "agent"
    /\ UNCHANGED <<helperVars, program, profile, clock, travelVars, nflState, nflPc, nflHops, nflLast, handleAll>>

\* tools node: ToolNode(tools) on the calls of the last AI message
ToolsNode ==
    /\ NflRunning /\ nflPc = "tools"
    /\ LET calls == LastMessage(nflState).tool_calls
       IN \E outcomes \in [DOMAIN calls -> {"ok", "raise"}] :
             /\ \A i \in DOMAIN calls :
                   outcomes[i] \in (IF BodyRuns(calls[i]) THEN BodyOutcomes(calls[i].name) ELSE {"ok"})
             /\ LET r == ToolNodeRun(calls, outcomes, handleAll)
                IN IF r.raised
                   THEN /\ nflStatus' = "error"
                        /\ nflFailed' = "tools"
                        /\ UNCHANGED <<nflState, nflPc, nflHops, nflLast>>
                   ELSE /\ nflState' = MergeNfl(nflState, [messages |-> r.messages])
                        /\ nflPc' = "agent"        \* add_edge("tools", "agent")
                        /\ nflHops' = nflHops + 1
                        /\ nflLast' = "tools"
                        /\ UNCHANGED <<nflStatus, nflFailed>>
    /\ UNCHANGED <<helperVars, program, profile, clock, travelVars, handleAll>>

\* finalize node, then add_edge("finalize", END): graph.invoke returns
FinalizeNode ==
    /\ NflRunning /\ nflPc = "finalize"
    /\ nflState' = MergeNfl(nflState, finalize(nflState))
    /\ nflPc' = "END"
    /\ nflHops' = nflHops + 1
    /\ nflLast' = "finalize"
    /\ nflStatus' = "done"
    /\ UNCHANGED <<helperVars, program, profile, clock, travelVars, nflFailed, handleAll>>

\* graph.invoke is called without a config: LangGraph stops a run that still has
\* a node to execute after recursion_limit supersteps by raising GraphRecursionError
RecursionAbort ==
    /\ program = "nfl" /\ nflStatus = "running"
    /\ nflPc # "END" /\ nflHops >= RecursionLimit
    /\ nflStatus' = "error"
    /\ nflFailed' = "recursion"
    /\ UNCHANGED <<helperVars, program, profile, clock, travelVars, nflState, nflPc, nflHops, nflLast, handleAll>>

\* answer_question's return value
answer_question_result == Strip(DictGet(nflState, "final_answer", ""))

----------------------------------------------------------------------------
(* Specification *)

Init ==
    /\ program \in {"travel", "nfl"}
    /\ profile \in (IF program = "travel" THEN {"single", "sessions"} ELSE {"single"})
    /\ clock = 0
    /\ conversation_store = <<>>
    /\ pc = "idle"
    /\ state = NoState
    /\ session_id = NoId
    /\ trace = <<>>
    /\ nRequests = 0
    /\ resumed = FALSE
    /\ routerPath = "none"
    /\ chat_response = NoResponse
    /\ cleanups_due = 0 /\ store_order = <<>>
    /\ nflState = [messages |-> <<HumanMessage("Who is the passing leader?")>>]
    /\ nflPc = "agent"
    /\ nflHops = 0
    /\ nflStatus = "running"
    /\ nflLast = "none"
    /\ nflFailed = "none"
    /\ handleAll \in (IF program = "nfl" THEN BOOLEAN ELSE {TRUE})
    /\ heap = <<>> /\ roots = {} /\ lastCall = NoCall /\ scrape = NoScrape /\ retry = NoRetry

Next ==
    \/ \E message \in Queries(profile), rsid \in RequestIds : ChatBegin(message, rsid)
    \/ RouterNode
    \/ BookingNode
    \/ ComplaintNode
    \/ InformationNode
    \/ FinalResponseNode
    \/ ChatEnd
    \/ Tick
    \/ AgentRequestsTools
    \/ AgentAnswers
    \/ AgentRaises
    \/ ToolsNode
    \/ FinalizeNode
    \/ RecursionAbort

Spec == Init /\ [][Next]_vars

----------------------------------------------------------------------------
(* The finalizer as a function of the state it is handed (graph.py 111-122) *)

\* messages a log handed to final_response can hold
LogMessages ==
    {ConversationMessage("user", <<"hello">>, 0, None),
     ConversationMessage("agent", <<"Router:", "routed">>, 0, "router"),
     ConversationMessage("agent", <<"Booking Agent:", "Paris">>, 0, "booking_agent")}

\* message logs of up to MaxLog messages
Logs == UNION {[1..n -> LogMessages] : n \in 0..MaxLog}

\* the graph is about to run final_response on a state with any such log
InitFinalizer ==
    /\ program = "travel" /\ profile = "single"
    /\ clock = 0
    /\ conversation_store = <<>>
    /\ pc = "final_response"
    /\ \E log \in Logs :
          state = [create_initial_state(<<"hello">>, <<"client", 0>>, 0) EXCEPT !.messages = log]
    /\ session_id = <<"client", 0>>
    /\ trace = <<"router">>
    /\ nRequests = 1
    /\ resumed = FALSE
    /\ routerPath = "fallback"
    /\ chat_response = NoResponse
    /\ cleanups_due = 0 /\ store_order = <<>>
    /\ nflState = [messages |-> <<HumanMessage("Who is the passing leader?")>>]
    /\ nflPc = "agent"
    /\ nflHops = 0
    /\ nflStatus = "running"
    /\ nflLast = "none"
    /\ nflFailed = "none"
    /\ handleAll = TRUE
    /\ heap = <<>> /\ roots = {} /\ lastCall = NoCall /\ scrape = NoScrape /\ retry = NoRetry

\* final_response is invoked again on the state it returned
FinalResponseReentry ==
    /\ program = "travel" /\ pc = "END"
    /\ Len(FilterRole(state.messages, "assistant")) <= MaxReentries
    /\ state' = MergeTravel(state, _final_response_agent(state, clock))
    /\ trace' = Append(trace, "final_response")
    /\ UNCHANGED <<helperVars, program, profile, clock, cleanups_due, store_order, conversation_store, pc, session_id, nRequests,
                   resumed, routerPath, chat_response, nflVars>>

NextFinalizer ==
    \/ FinalResponseNode
    \/ FinalResponseReentry
    \/ Tick

SpecFinalizer == InitFinalizer /\ [][NextFinalizer]_vars

----------------------------------------------------------------------------
(* demo-travel-agent: the state helpers on Python objects (utils/graph_utils.py) *)
(* A dict or list is an object at an address of heap; a dict field holds        *)
(* <<"ref", address>> for a list or dict and <<"val", v>> for anything else.    *)

\* the contents of a dict with the objects its fields refer to, in place of the references
Deep(h, a) ==
    [f \in DOMAIN h[a] |-> IF h[a][f][1] = "ref" THEN <<"obj", h[h[a][f][2]]>> ELSE h[a][f]]

\* mutant: the message is appended to the list of the state passed in
add_message_to_state_on_heap_inplace(h, s, role, content, agent_name, now) ==
    LET new_message == ConversationMessage(role, content, now, agent_name)
        list == h[s].messages[2]
        updated_state == Len(h) + 1
        h1 == Append(h, h[s])                                      \* state.copy()
        h2 == [h1 EXCEPT ![list] = Append(h[list], new_message)]   \* state["messages"].append(...)
        h3 == [h2 EXCEPT ![updated_state].updated_at = <<"val", now>>]
    IN [heap |-> h3, ret |-> updated_state]

\* add_message_to_state: the heap after the call and the address returned
add_message_to_state_on_heap(h, s, role, content, agent_name, now) ==
    LET new_message == ConversationMessage(role, content, now, agent_name)
        updated_state == Len(h) + 1
        new_list == Len(h) + 2
        h1 == Append(h, h[s])                                      \* state.copy()
        h2 == Append(h1, Append(h[h[s].messages[2]], new_message)) \* state["messages"] + [new_message]
        h3 == [h2 EXCEPT ![updated_state].messages = <<"ref", new_list>>]
        h4 == [h3 EXCEPT ![updated_state].updated_at = <<"val", now>>]
    IN [heap |-> h4, ret |-> updated_state]

\* update_state_field: the heap after the call and the address returned
update_state_field_on_heap(h, s, field, value, now) ==
    LET updated_state == Len(h) + 1
        h1 == Append(h, h[s])                                      \* state.copy()
        h2 == [h1 EXCEPT ![updated_state][field] = value]
        h3 == [h2 EXCEPT ![updated_state].updated_at = <<"val", now>>]
    IN [heap |-> h3, ret |-> updated_state]

\* the objects create_initial_state builds: the state dict, its messages list
\* and its booking_info dict
InitialObjects(log) ==
    <<[messages |-> <<"ref", 2>>, booking_info |-> <<"ref", 3>>,
       current_agent |-> <<"val", None>>, updated_at |-> <<"val", 0>>],
      log,
      [destination |-> None, travelers |-> 1]>>

\* values the agents pass to update_state_field, per field
FieldValues ==
    {<<"current_agent", <<"val", "booking">>>>,
     <<"current_agent", <<"val", "complaint">>>>,
     <<"booking_info", <<"ref", 3>>>>}

InitHelpers ==
    /\ program = "helpers" /\ profile = "single"
    /\ clock = 0
    /\ conversation_store = <<>>
    /\ pc = "idle"
    /\ state = NoState
    /\ session_id = NoId
    /\ trace = <<>>
    /\ nRequests = 0
    /\ resumed = FALSE
    /\ routerPath = "none"
    /\ chat_response = NoResponse
    /\ cleanups_due = 0 /\ store_order = <<>>
    /\ nflState = [messages |-> <<HumanMessage("Who is the passing leader?")>>]
    /\ nflPc = "agent"
    /\ nflHops = 0
    /\ nflStatus = "running"
    /\ nflLast = "none"
    /\ nflFailed = "none"
    /\ handleAll = TRUE
    /\ \E log \in {<<>>, <<ConversationMessage("user", <<"hello">>, 0, None)>>} :
          heap = InitialObjects(log)
    /\ roots = {1}
    /\ lastCall = NoCall /\ scrape = NoScrape /\ retry = NoRetry

\* some node calls add_message_to_state on a state it holds
CallAddMessage ==
    /\ program = "helpers" /\ Cardinality(roots) <= MaxHelperCalls
    /\ \E s \in roots, role \in {"user", "agent"}, now \in 0..MaxClock :
          LET r == add_message_to_state_on_heap(heap, s, role, <<"text">>, None, now)
          IN /\ heap' = r.heap
             /\ roots' = roots \cup {r.ret}
             /\ lastCall' = [arg |-> s, before |-> Deep(heap, s), ret |-> r.ret]
    /\ UNCHANGED <<program, profile, clock, travelVars, nflVars, scrape, retry>>

\* some node calls update_state_field on a state it holds
CallUpdateField ==
    /\ program = "helpers" /\ Cardinality(roots) <= MaxHelperCalls
    /\ \E s \in roots, fv \in FieldValues, now \in 0..MaxClock :
          LET r == update_state_field_on_heap(heap, s, fv[1], fv[2], now)
          IN /\ heap' = r.heap
             /\ roots' = roots \cup {r.ret}
             /\ lastCall' = [arg |-> s, before |-> Deep(heap, s), ret |-> r.ret]
    /\ UNCHANGED <<program, profile, clock, travelVars, nflVars, scrape, retry>>

NextHelpers == CallAddMessage \/ CallUpdateField

SpecHelpers == InitHelpers /\ [][NextHelpers]_vars

----------------------------------------------------------------------------
(* Multiagent NFL: should_continue and finalize as functions of the state     *)
(* they are handed (agent.py 338-351)                                         *)

\* messages a log handed to should_continue and finalize can hold
NflLogMessages ==
    {HumanMessage("Who is the passing leader?"),
     AIMessage(" padded answer ", <<>>),
     AIMessage("", WithIds(<<[name |-> "web_search", args |-> [query |-> "passing leader"]]>>, 1)),
     ToolMessage(<<"result of", "web_search">>, "web_search", <<1, 1>>, "success")}

\* NflAgentState values: total=False, so the messages key may be missing
NflStates ==
    {<<>>} \cup {[messages |-> log] : log \in UNION {[1..n -> NflLogMessages] : n \in 0..MaxNflLog}}

\* the agent node has returned and its conditional edge is about to be evaluated
InitRouting ==
    /\ program = "nfl" /\ profile = "single"
    /\ clock = 0
    /\ conversation_store = <<>>
    /\ pc = "idle"
    /\ state = NoState
    /\ session_id = NoId
    /\ trace = <<>>
    /\ nRequests = 0
    /\ resumed = FALSE
    /\ routerPath = "none"
    /\ chat_response = NoResponse
    /\ cleanups_due = 0 /\ store_order = <<>>
    /\ nflState \in NflStates
    /\ nflPc = "route"
    /\ nflHops = 1
    /\ nflStatus = "running"
    /\ nflLast = "agent"
    /\ nflFailed = "none"
    /\ handleAll = TRUE
    /\ heap = <<>> /\ roots = {} /\ lastCall = NoCall /\ scrape = NoScrape /\ retry = NoRetry

\* add_conditional_edges("agent", should_continue, {...}) is evaluated
RouteAfterAgent ==
    /\ program = "nfl" /\ nflStatus = "running" /\ nflPc = "route"
    /\ nflPc' = Lookup(NflEdges, should_continue(nflState))
    /\ UNCHANGED <<helperVars, program, profile, clock, travelVars, nflState, nflHops,
                   nflStatus, nflLast, nflFailed, handleAll>>

NextRouting == RouteAfterAgent \/ FinalizeNode

SpecRouting == InitRouting /\ [][NextRouting]_vars

----------------------------------------------------------------------------
(* demo-travel-agent: many sessions and the cleanup task (main.py) *)

InitSessions ==
    /\ program = "travel" /\ profile = "eviction"
    /\ clock = 0
    /\ conversation_store = <<>>
    /\ pc = "idle"
    /\ state = NoState
    /\ session_id = NoId
    /\ trace = <<>>
    /\ nRequests = 0
    /\ resumed = FALSE
    /\ routerPath = "none"
    /\ chat_response = NoResponse
    /\ cleanups_due = 0 /\ store_order = <<>>
    /\ nflState = [messages |-> <<HumanMessage("Who is the passing leader?")>>]
    /\ nflPc = "agent"
    /\ nflHops = 0
    /\ nflStatus = "running"
    /\ nflLast = "none"
    /\ nflFailed = "none"
    /\ handleAll = TRUE
    /\ heap = <<>> /\ roots = {} /\ lastCall = NoCall /\ scrape = NoScrape /\ retry = NoRetry

NextSessions ==
    \/ \E message \in Queries(profile), rsid \in RequestIds : ChatBegin(message, rsid)
    \/ RouterNode
    \/ InformationNode
    \/ FinalResponseNode
    \/ ChatEnd
    \/ Cleanup
    \/ Tick

SpecSessions == InitSessions /\ [][NextSessions]_vars

----------------------------------------------------------------------------
(* Multiagent NFL: the web_scrape tool (agent.py) *)

\* str.lstrip(), str.rstrip(), str.strip() on a string given as its characters
IsSpace(c) == c = " "

RECURSIVE LStrip(_)
LStrip(s) == IF s # <<>> /\ IsSpace(Head(s)) THEN LStrip(Tail(s)) ELSE s

RECURSIVE RStrip(_)
RStrip(s) ==
    IF s # <<>> /\ IsSpace(s[Len(s)]) THEN RStrip(SubSeq(s, 1, Len(s) - 1)) ELSE s

StripChars(s) == RStrip(LStrip(s))

\* re.sub(r"\s+", " ", s)
RECURSIVE CollapseSpaces(_)
CollapseSpaces(s) ==
    IF s = <<>> THEN <<>>
    ELSE IF IsSpace(Head(s)) THEN <<" ">> \o CollapseSpaces(LStrip(s))
    ELSE <<Head(s)>> \o CollapseSpaces(Tail(s))

IgnoredTags == {"script", "style", "noscript"}

\* _TextExtractor.feed: the parser's _texts after the events of a page
RECURSIVE Feed(_, _, _)
Feed(events, depth, texts) ==
    IF events = <<>> THEN texts
    ELSE LET ev == Head(events)
         IN IF ev.kind = "start"
            THEN Feed(Tail(events), IF ev.tag \in IgnoredTags THEN depth + 1 ELSE depth, texts)
            ELSE IF ev.kind = "end"
            THEN Feed(Tail(events),
                      IF ev.tag \in IgnoredTags /\ depth > 0 THEN depth - 1 ELSE depth, texts)
            ELSE IF depth > 0 THEN Feed(Tail(events), depth, texts)
            ELSE LET text == StripChars(ev.data)
                 IN Feed(Tail(events), depth,
                         IF text # <<>> THEN Append(texts, text) ELSE texts)

\* _TextExtractor.get_text: " ".join(self._texts)
RECURSIVE get_text(_)
get_text(texts) ==
    IF texts = <<>> THEN <<>>
    ELSE IF Len(texts) = 1 THEN texts[1]
    ELSE texts[1] \o <<" ">> \o get_text(Tail(texts))

\* what a return statement of web_scrape hands back
ReturnsJson(obj) == [type |-> "str", json |-> obj]
ReturnsNone == [type |-> "NoneType"]

\* web_scrape(url, max_chars) when _fetch_url did `fetched`
web_scrape(url, max_chars, fetched) ==
    IF fetched.kind = "html"
    THEN LET text == StripChars(CollapseSpaces(get_text(Feed(fetched.events, 0, <<>>))))
             cut == IF Len(text) > max_chars
                    THEN RStrip(SubSeq(text, 1, max_chars)) \o <<".", ".", ".">>
                    ELSE text
         IN ReturnsJson([url |-> url, content |-> cut])
    ELSE IF fetched.kind = "HTTPError"
    THEN IF fetched.code = 403
         THEN ReturnsJson([error |-> "HTTP Error 403: Forbidden",
                           message |-> "The website blocked your request."])
         ELSE ReturnsNone
    ELSE ReturnsJson([error |-> fetched.text,
                      message |-> "An error occurred while scraping the webpage."])

\* the parser events of a fetched page
PageEvents ==
    {[kind |-> "start", tag |-> t] : t \in {"script", "p"}}
    \cup {[kind |-> "end", tag |-> t] : t \in {"script", "p"}}
    \cup {[kind |-> "data", data |-> d] : d \in {<<"a">>, <<" ", "b", " ">>, <<"c", " ", " ", "d">>}}

Pages == UNION {[1..n -> PageEvents] : n \in 0..MaxPageEvents}

\* what _fetch_url can do: return a page, raise HTTPError, raise another exception
FetchOutcomes ==
    {[kind |-> "html", events |-> p] : p \in Pages}
    \cup {[kind |-> "HTTPError", code |-> c] : c \in {403, 404, 500}}
    \cup {[kind |-> "Exception", text |-> "timed out"]}

Urls == {"https://nfl.example/stats", "http://blocked.example"}

InitScrape ==
    /\ program = "scrape" /\ profile = "single"
    /\ clock = 0
    /\ conversation_store = <<>>
    /\ pc = "idle"
    /\ state = NoState
    /\ session_id = NoId
    /\ trace = <<>>
    /\ nRequests = 0
    /\ resumed = FALSE
    /\ routerPath = "none"
    /\ chat_response = NoResponse
    /\ cleanups_due = 0 /\ store_order = <<>>
    /\ nflState = [messages |-> <<HumanMessage("Who is the passing leader?")>>]
    /\ nflPc = "agent"
    /\ nflHops = 0
    /\ nflStatus = "running"
    /\ nflLast = "none"
    /\ nflFailed = "none"
    /\ handleAll = TRUE
    /\ heap = <<>> /\ roots = {} /\ lastCall = NoCall /\ retry = NoRetry
    /\ \E url \in Urls, max_chars \in 0..MaxChars, fetched \in FetchOutcomes :
          scrape = [url |-> url, max_chars |-> max_chars, fetched |-> fetched,
                    result |-> [type |-> "none"]]

\* the tools node calls web_scrape
CallWebScrape ==
    /\ program = "scrape" /\ scrape.result.type = "none"
    /\ scrape' = [scrape EXCEPT !.result = web_scrape(scrape.url, scrape.max_chars, scrape.fetched)]
    /\ UNCHANGED <<program, profile, clock, travelVars, nflVars, heap, roots, lastCall, retry>>

NextScrape == CallWebScrape

SpecScrape == InitScrape /\ [][NextScrape]_vars

----------------------------------------------------------------------------
(* demo-travel-agent: ErrorRecovery.retry_with_backoff (utils/error_handling.py) *)

\* what a call of func can do: return a value or raise an exception
FuncOutcomes ==
    {[ok |-> TRUE, value |-> "result"], [ok |-> TRUE, value |-> None],
     [ok |-> FALSE, value |-> "ValueError"], [ok |-> FALSE, value |-> "TimeoutError"]}

backoff_factor == 2

\* one turn of `for attempt in range(max_retries)`, or the end of the loop
retry_with_backoff(r) ==
    IF r.attempt >= r.max_retries
    THEN [r EXCEPT !.status = "returned", !.result = None]
    ELSE LET o == r.outcomes[r.attempt + 1]
         IN IF o.ok
            THEN [r EXCEPT !.calls = @ + 1, !.status = "returned", !.result = o.value]
            ELSE IF r.attempt = r.max_retries - 1
            THEN [r EXCEPT !.calls = @ + 1, !.status = "raised", !.result = o.value]
            ELSE [r EXCEPT !.calls = @ + 1, !.attempt = @ + 1,
                           !.slept = @ + backoff_factor ^ r.attempt]

InitRetry ==
    /\ program = "retry" /\ profile = "single"
    /\ clock = 0
    /\ conversation_store = <<>>
    /\ pc = "idle"
    /\ state = NoState
    /\ session_id = NoId
    /\ trace = <<>>
    /\ nRequests = 0
    /\ resumed = FALSE
    /\ routerPath = "none"
    /\ chat_response = NoResponse
    /\ cleanups_due = 0 /\ store_order = <<>>
    /\ nflState = [messages |-> <<HumanMessage("Who is the passing leader?")>>]
    /\ nflPc = "agent"
    /\ nflHops = 0
    /\ nflStatus = "running"
    /\ nflLast = "none"
    /\ nflFailed = "none"
    /\ handleAll = TRUE
    /\ heap = <<>> /\ roots = {} /\ lastCall = NoCall /\ scrape = NoScrape
    /\ \E m \in 0..MaxRetries, outcomes \in [1..MaxRetries -> FuncOutcomes] :
          retry = [max_retries |-> m, outcomes |-> outcomes, attempt |-> 0, calls |-> 0,
                   slept |-> 0, status |-> "loop", result |-> None]

\* the loop body runs once more: func is called
RetryAttempt ==
    /\ program = "retry" /\ retry.status = "loop"
    /\ retry.attempt < retry.max_retries
    /\ retry' = retry_with_backoff(retry)
    /\ UNCHANGED <<program, profile, clock, travelVars, nflVars, heap, roots, lastCall, scrape>>

\* range(max_retries) is used up: the function falls off its end
RetryLoopEnds ==
    /\ program = "retry" /\ retry.status = "loop"
    /\ retry.attempt >= retry.max_retries
    /\ retry' = retry_with_backoff(retry)
    /\ UNCHANGED <<program, profile, clock, travelVars, nflVars, heap, roots, lastCall, scrape>>

NextRetry == RetryAttempt \/ RetryLoopEnds

SpecRetry == InitRetry /\ [][NextRetry]_vars

----------------------------------------------------------------------------
(* Properties *)

SpecializedNodes == {"booking_agent", "complaint_agent", "information_agent"}

\* the router node has completed in the current travel run
RouterDone == program = "travel" /\ pc # "idle" /\ Len(trace) >= 1

\* every model turn of the tool-loop run so far requested a tool
ModelAlwaysCallsTools ==
    \A i \in DOMAIN nflState.messages :
        nflState.messages[i].type = "ai" => nflState.messages[i].tool_calls # <<>>

\* C1: tool-loop termination - with a model that requests a tool on every turn,
\* the run has ended by the hop limit and ended by returning a state that
\* carries the final answer, not by raising.
C1_ToolLoopTerminates ==
    (program = "nfl" /\ ModelAlwaysCallsTools /\ nflHops >= RecursionLimit
        /\ nflStatus # "running")
    => (nflStatus = "done" /\ "final_answer" \in DOMAIN nflState)

\* C2: once the router node has recorded a decision X among booking, complaint,
\* information in current_agent, the node scheduled next is the specialized
\* agent node of X.
C2_RouterDecisionDispatched ==
    (RouterDone /\ trace = <<"router">> /\ state.current_agent \in Categories)
    => pc = AgentNode(state.current_agent)

\* C3: append-only message log - every node execution of either graph leaves
\* the log it found as a prefix of the log after its update is merged.
C3_AppendOnly ==
    [][/\ (pc \notin {"idle", "END"} /\ trace' = Append(trace, pc))
            => IsPrefix(state.messages, state'.messages)
       /\ (nflHops' = nflHops + 1)
            => IsPrefix(nflState.messages, nflState'.messages)]_vars

\* C3 witness: a travel run in which router, a specialized agent and
\* final_response have each appended to the log that began with the user message
C3_Witness ==
    /\ program = "travel" /\ pc = "END"
    /\ Len(trace) = 3 /\ Len(state.messages) = 4
    /\ state.messages[1].role = "user"

\* C4: a request naming a stored session resumes it - the state stored when the
\* request finishes holds the messages stored before it, followed by the
\* messages of this request.
C4_SessionResumed ==
    [][(program = "travel" /\ pc = "END" /\ pc' = "idle" /\ resumed
            /\ conversation_store[session_id] # <<>>)
        => /\ conversation_store'[session_id] # <<>>
           /\ IsPrefix(conversation_store[session_id][1].messages,
                       conversation_store'[session_id][1].messages)
           /\ Len(conversation_store'[session_id][1].messages)
                > Len(conversation_store[session_id][1].messages)]_vars

\* C5: router totality - whatever the classification call did, the router node
\* returned a state with one routing message appended, and when it went through
\* the keyword fallback, current_agent and query_type are one of the three
\* categories, for every query (the empty one included).
C5_RouterTotal ==
    RouterDone =>
        /\ routerPath \in {"primary", "fallback"}
        /\ Len(state.messages) >= 2
        /\ state.messages[2].agent_name = "router"
        /\ routerPath = "fallback" =>
              /\ state.current_agent \in Categories
              /\ state.query_type \in Categories

\* C5 witness: the fallback has routed a query without any keyword
C5_Witness ==
    /\ RouterDone /\ routerPath = "fallback"
    /\ state.current_query \in {<<>>, <<"hello">>}
    /\ state.current_agent = "information"

\* C6: after the router node, by either path, current_agent and query_type are
\* one of booking, complaint, information.
C6_DecisionInCategories ==
    RouterDone =>
        /\ state.current_agent \in Categories
        /\ state.query_type \in Categories

\* the node sequences a travel run may have executed
RunShapes ==
    {<<"router", "final_response">>}
    \cup {<<"router", n, "final_response">> : n \in SpecializedNodes}

TravelNodeStep ==
    RouterNode \/ BookingNode \/ ComplaintNode \/ InformationNode \/ FinalResponseNode

\* C7: every travel run executes router, then at most one specialized agent
\* once, then final_response, and ends with is_complete set; no node is left
\* without a next step and the router is never re-entered.
C7_RunShape ==
    (program = "travel" /\ pc # "idle") =>
        /\ \E shape \in RunShapes : IsPrefix(trace, shape)
        /\ pc \in {"router", "final_response", "END"} \cup SpecializedNodes
        /\ pc = "router" => trace = <<>>
        /\ pc # "END" => ENABLED TravelNodeStep
        /\ pc = "END" => (trace \in RunShapes /\ state.is_complete)

\* C7 witness: a finished run that went through a specialized agent
C7_Witness ==
    /\ program = "travel" /\ pc = "END"
    /\ trace = <<"router", "complaint_agent", "final_response">>
    /\ state.is_complete

\* the last message is a model message that carries a tool call
LastIsToolRequest ==
    /\ nflState.messages # <<>>
    /\ LastMessage(nflState).type = "ai"
    /\ Len(LastMessage(nflState).tool_calls) >= 1

\* C8: tool-loop routing - after the agent node the next node is tools exactly
\* when the last message is a model message with a tool call, and finalize
\* otherwise; after tools it is agent; after finalize the run is at END.
C8_ToolLoopRouting ==
    (program = "nfl" /\ nflHops >= 1) =>
        /\ nflLast = "agent" =>
              /\ nflPc \in {"tools", "finalize"}
              /\ nflPc = "tools" <=> LastIsToolRequest
        /\ nflLast = "tools" => nflPc = "agent"
        /\ nflLast = "finalize" => (nflPc = "END" /\ nflStatus = "done")
        /\ nflPc = "END" => nflLast = "finalize"

\* C8 witness: a run that went agent -> tools -> agent -> finalize -> END
C8_Witness ==
    /\ program = "nfl" /\ nflStatus = "done" /\ nflPc = "END"
    /\ \E i \in DOMAIN nflState.messages : nflState.messages[i].type = "tool"

\* C9: tool failures are never fatal - no exception of a tool body leaves the
\* tools node and ends the run.
C9_ToolFailureNotFatal ==
    program = "nfl" => nflFailed # "tools"

\* index of the last model message of a log (0 if there is none)
RECURSIVE LastAi(_, _)
LastAi(msgs, i) ==
    IF i = 0 THEN 0
    ELSE IF msgs[i].type = "ai" THEN i ELSE LastAi(msgs, i - 1)

\* the log ends with the last model turn's requests answered one to one, in order
ResultsPaired(msgs) ==
    LET k == LastAi(msgs, Len(msgs))
    IN /\ k > 0
       /\ LET calls == msgs[k].tool_calls
              results == SubSeq(msgs, k + 1, Len(msgs))
          IN /\ Len(results) = Len(calls)
             /\ \A i \in DOMAIN calls :
                   /\ results[i].type = "tool"
                   /\ results[i].tool_call_id = calls[i].id

\* C10: tool result pairing - once the tools node has been run on a model turn
\* with n tool calls, the log ends with exactly n tool results, the i-th one
\* carrying the call id of the i-th request.
C10_ResultsPaired ==
    (program = "nfl" /\ (nflFailed = "tools" \/ (nflLast = "tools" /\ nflPc = "agent")))
    => ResultsPaired(nflState.messages)


\* every tool call of every model message of the log has a tool result later in
\* the log that carries its call id
AllCallsAnswered(msgs) ==
    \A k \in DOMAIN msgs :
        msgs[k].type = "ai" =>
            \A i \in DOMAIN msgs[k].tool_calls :
                \E j \in (k + 1)..Len(msgs) :
                    /\ msgs[j].type = "tool"
                    /\ msgs[j].tool_call_id = msgs[k].tool_calls[i].id

\* C11: barrier before resuming - whenever the agent node is the node to run,
\* in particular when it is re-entered after the tools node, every tool call
\* requested so far has its tool result in the log; the agent never runs while
\* a requested call is without a result.
C11_BarrierBeforeAgent ==
    (program = "nfl" /\ nflPc = "agent") => AllCallsAnswered(nflState.messages)

\* C11 witness: the agent node is re-entered after the tools node ran a turn
\* with several tool calls
C11_Witness ==
    /\ program = "nfl" /\ nflStatus = "running"
    /\ nflPc = "agent" /\ nflLast = "tools"
    /\ \E k \in DOMAIN nflState.messages : Len(nflState.messages[k].tool_calls) >= 2


\* the tools node has been run on the last model turn of the log: it returned
\* its results, or an exception left it
ToolsNodeRan ==
    program = "nfl" /\ (nflFailed = "tools" \/ (nflLast = "tools" /\ nflPc = "agent"))

\* the tool calls of the last model turn of the log
LastTurnCalls ==
    LET k == LastAi(nflState.messages, Len(nflState.messages))
    IN IF k = 0 THEN <<>> ELSE nflState.messages[k].tool_calls

\* the log holds an error tool result for the call
ErrorResultFor(call) ==
    \E j \in DOMAIN nflState.messages :
        /\ nflState.messages[j].type = "tool"
        /\ nflState.messages[j].tool_call_id = call.id
        /\ nflState.messages[j].status = "error"

\* C12: schema-invalid arguments - once the tools node has been run on a turn,
\* every call of the turn to a registered tool whose arguments fail the tool's
\* schema (required parameter missing, or a value of the wrong type) has an
\* error tool result in the log, and no exception has left the tools node.
C12_InvalidArgsBecomeErrorResult ==
    ToolsNodeRan =>
        \A i \in DOMAIN LastTurnCalls :
            (LastTurnCalls[i].name \in RegisteredTools /\ ~ArgsValid(LastTurnCalls[i]))
            => (ErrorResultFor(LastTurnCalls[i]) /\ nflFailed # "tools")

\* the log holds a tool result for the call that names the tool as unknown
UnknownToolResultFor(call) ==
    \E j \in DOMAIN nflState.messages :
        /\ nflState.messages[j].type = "tool"
        /\ nflState.messages[j].tool_call_id = call.id
        /\ nflState.messages[j].status = "error"
        /\ nflState.messages[j].content = <<"Error:", call.name, "is not a valid tool">>

\* C13: unregistered tool - once the tools node has been run on a turn, every
\* call of the turn that names a tool outside the registered list has an error
\* tool result naming that tool, and the run has gone on to the agent node
\* instead of aborting.
C13_UnknownToolContinues ==
    ToolsNodeRan =>
        \A i \in DOMAIN LastTurnCalls :
            LastTurnCalls[i].name \notin RegisteredTools
            => /\ UnknownToolResultFor(LastTurnCalls[i])
               /\ nflFailed # "tools"
               /\ nflPc = "agent"


\* the run ended by returning a state whose log ends with a model-side message
\* to the user and which carries the final answer
ReportedTerminalFailure ==
    /\ nflStatus = "done"
    /\ "final_answer" \in DOMAIN nflState
    /\ LastMessage(nflState).type = "ai"
    /\ LastMessage(nflState).tool_calls = <<>>

\* C14: adapter failure in the tool loop - when the model call of the agent node
\* has failed for good, the run ends as a reported terminal failure, with an
\* apologetic message appended to the state and the state complete; the
\* exception does not leave the run.
C14_AdapterFailureReported ==
    (program = "nfl" /\ nflFailed = "agent") => ReportedTerminalFailure


\* the last three model-side messages of a log (all of them if fewer), as indices
LastThreeResponses(msgs) ==
    LET idx == {i \in DOMAIN msgs : msgs[i].role \in {"agent", "assistant"}}
    IN {i \in idx : Cardinality({j \in idx : j > i}) < 3}

\* the contents of the messages at the kept indices from i on, in log order
RECURSIVE JoinContents(_, _, _)
JoinContents(msgs, i, keep) ==
    IF i > Len(msgs) THEN <<>>
    ELSE (IF i \in keep THEN msgs[i].content ELSE <<>>) \o JoinContents(msgs, i + 1, keep)

AnswerAt(st, t) ==
    LET out == _final_response_agent(st, t)
    IN out.messages[Len(out.messages)].content

\* C16: finalizer idempotence - on an unchanged state the answer string is the
\* same whenever the node is invoked, and every invocation on a state that an
\* earlier invocation returned gives the answer string of the first one.
C16_FinalizerIdempotent ==
    (program = "travel" /\ pc \in {"final_response", "END"}) =>
        /\ \A t1, t2 \in 0..MaxClock : AnswerAt(state, t1) = AnswerAt(state, t2)
        /\ \A i, j \in DOMAIN state.messages :
              (state.messages[i].role = "assistant" /\ state.messages[j].role = "assistant")
              => state.messages[i].content = state.messages[j].content
        /\ \A i \in DOMAIN state.messages :
              state.messages[i].role = "assistant"
              => AnswerAt(state, clock) = state.messages[i].content

\* C16 witness: final_response has been invoked a second time, later, on the
\* state it returned, and the log holds agent messages
C16_Witness ==
    /\ program = "travel" /\ pc = "END"
    /\ Len(FilterRole(state.messages, "agent")) >= 2
    /\ LET finals == FilterRole(state.messages, "assistant")
       IN Len(finals) = 2 /\ finals[1].timestamp # finals[2].timestamp


\* the answer the final_response node appended in the run stored for a session
FinalizerAnswer(sid) ==
    LET finals == FilterRole(conversation_store[sid][1].messages, "assistant")
    IN finals[Len(finals)].content

\* C17: the response returned for a chat request is the answer that the
\* final_response node of that run produced.
C17_ResponseIsFinalizerAnswer ==
    (program = "travel" /\ pc = "idle" /\ nRequests >= 1)
    => chat_response.response = FinalizerAnswer(chat_response.session_id)


\* C18: state helpers never mutate their input - a call of add_message_to_state
\* or update_state_field leaves every object that existed before the call as
\* it was, so the state passed in (its messages list and every field
\* included) is structurally equal to what it was, and the state returned is
\* a new object.
C18_HelpersDoNotMutate ==
    [][(lastCall' # lastCall) =>
        /\ \A a \in DOMAIN heap : a \in DOMAIN heap' /\ heap'[a] = heap[a]
        /\ Deep(heap', lastCall'.arg) = lastCall'.before
        /\ lastCall'.ret # lastCall'.arg
        /\ lastCall'.ret \notin DOMAIN heap]_vars

\* C18 witness: both helpers have been called on a state that an earlier
\* helper call returned and whose log is not empty
C18_Witness ==
    /\ program = "helpers" /\ lastCall.arg > 1
    /\ heap[heap[lastCall.arg].messages[2]] # <<>>
    /\ \E a \in roots : heap[a].current_agent # <<"val", None>>


\* the category the keyword rule gives a query: booking if the lowercased query
\* holds a booking keyword, else complaint if it holds a complaint keyword,
\* else information
KeywordCategory(q) ==
    IF \E kw \in booking_keywords : KwIn(kw, Lower(q)) THEN "booking"
    ELSE IF \E kw \in complaint_keywords : KwIn(kw, Lower(q)) THEN "complaint"
    ELSE "information"

\* C19: keyword fallback classification - whenever the router went through the
\* fallback, the decision it stored is the keyword category of the query:
\* booking keywords win over complaint keywords, no keyword gives information,
\* and the query is matched in lower case.
C19_FallbackClassification ==
    (RouterDone /\ routerPath = "fallback") =>
        /\ state.current_agent = KeywordCategory(state.current_query)
        /\ state.query_type = KeywordCategory(state.current_query)
        /\ state.current_query \in {<<"REFUND", "flight">>, <<"trip", "refund">>}
              => state.current_agent = "booking"
        /\ state.current_query \in {<<"REFUND">>, <<"delayed">>}
              => state.current_agent = "complaint"
        /\ state.current_query \in {<<>>, <<"hello">>, <<"where">>}
              => state.current_agent = "information"

\* C19 witness: the fallback has classified an upper-case query that holds a
\* complaint keyword and a booking keyword
C19_Witness ==
    /\ RouterDone /\ routerPath = "fallback"
    /\ state.current_query = <<"REFUND", "flight">>
    /\ state.current_agent = "booking"


\* token a is directly followed by token b in a message content
Names(content, a, b) ==
    \E i \in 1..(Len(content) - 1) : content[i] = a /\ content[i + 1] = b

\* what the booking node returns for state st on an extraction of destination D
\* and travelers N > 1: one more message, from the booking agent, that names
\* both, and a booking_info that holds both
BookingResultFor(st, llm, now) ==
    LET out == process_booking_request(st, llm, now)
        msg == out.messages[Len(out.messages)]
    IN /\ Len(out.messages) = Len(st.messages) + 1
       /\ IsPrefix(st.messages, out.messages)
       /\ msg.role = "agent" /\ msg.agent_name = "booking_agent"
       /\ (/\ llm.kind = "dict"
           /\ {"destination", "travelers"} \subseteq DOMAIN llm.dict
           /\ llm.dict.travelers[1] = "int" /\ llm.dict.travelers[2] > 1)
          => /\ Names(msg.content, "Destination:", llm.dict.destination)
             /\ Names(msg.content, "Travelers:", ToString(llm.dict.travelers[2]))
             /\ out.booking_info.destination = llm.dict.destination
             /\ out.booking_info.travelers = llm.dict.travelers

\* C20: booking scenario - when the router fallback has classified the query
\* as booking, the node that runs next is the booking node, and for every
\* extraction result the booking node appends exactly one agent message,
\* which for destination D and travelers N > 1 names D and N, with
\* booking_info.destination = D and booking_info.travelers = N.
C20_BookingScenario ==
    (RouterDone /\ routerPath = "fallback" /\ state.current_agent = "booking") =>
        /\ trace = <<"router">> => pc = "booking_agent"
        /\ Len(trace) >= 2 => trace[2] = "booking_agent"
        /\ pc = "booking_agent" =>
              \A llm \in BookingLLM(profile) : BookingResultFor(state, llm, clock)


\* the model has spoken twice in the run: one tool call on its first turn, an
\* answer without tool calls on its second
OneToolThenAnswer ==
    LET msgs == nflState.messages
        ai == {i \in DOMAIN msgs : msgs[i].type = "ai"}
    IN /\ program = "nfl"
       /\ Cardinality(ai) = 2
       /\ \E i, j \in ai :
             /\ i < j
             /\ Len(msgs[i].tool_calls) = 1
             /\ msgs[j].tool_calls = <<>>

\* the log is: user query, model tool request, the tool result of that request,
\* model answer
FourEntryLog(msgs) ==
    /\ Len(msgs) = 4
    /\ msgs[1].type = "human"
    /\ msgs[2].type = "ai" /\ Len(msgs[2].tool_calls) = 1
    /\ msgs[3].type = "tool" /\ msgs[3].tool_call_id = msgs[2].tool_calls[1].id
    /\ msgs[4].type = "ai" /\ msgs[4].tool_calls = <<>>

EmptyAdapterOutput(st) ==
    LET messages == DictGet(st, "messages", <<>>)
    IN messages = <<>> \/ messages[Len(messages)].type # "ai"

\* C22: empty adapter output - when the log is empty or does not end with a
\* model message, the edge after the agent node leads to finalize, never to
\* tools, finalize runs and sets final_answer to "", and nothing is raised.
C22_EmptyOutputFinalizes ==
    (program = "nfl" /\ EmptyAdapterOutput(nflState)) =>
        /\ nflPc \in {"route", "finalize", "END"}
        /\ nflPc = "route" => ENABLED RouteAfterAgent
        /\ nflPc = "finalize" => ENABLED FinalizeNode
        /\ nflPc = "END" => (nflStatus = "done" /\ nflState.final_answer = "")
        /\ nflFailed = "none" /\ nflStatus # "error"

\* C22 witness: a run has been finalized on a log that ends with a tool result
C22_Witness ==
    /\ program = "nfl" /\ nflPc = "END" /\ nflStatus = "done"
    /\ "messages" \in DOMAIN nflState /\ nflState.messages # <<>>
    /\ LastMessage(nflState).type = "tool"
    /\ nflState.final_answer = ""

\* a stored state is what one complete run for its key returned
CompleteRunOf(k, entry) ==
    /\ entry # <<>>
    /\ entry[1].session_id = k
    /\ entry[1].is_complete = TRUE

\* a step that writes the store while a chat request is running is that
\* request's own write of its own result under its own key
OnlyTheRunningRequestWrites ==
    (pc # "idle" /\ conversation_store' # conversation_store) =>
        /\ pc = "END" /\ pc' = "idle"
        /\ conversation_store' = [conversation_store EXCEPT ![session_id] = <<state>>]

\* a step that starts a request or runs the cleanup task is taken between requests
HandlersStartBetweenRequests ==
    (nRequests' # nRequests \/ cleanups_due' < cleanups_due) => pc = "idle"

DroppedByCount ==
    (DOMAIN conversation_store \ DOMAIN conversation_store') \ Expired(conversation_store, clock)

\* the step is one run of the cleanup task
CleanupStep == cleanups_due' = cleanups_due - 1

\* C24: after cleanup_old_sessions the store holds at most KeepSessions
\* sessions (100 in the program) and none last updated more than MaxAge
\* (24 hours) ago, and every session dropped because of the count limit was
\* updated no later than every session retained.
C24_Eviction ==
    [][CleanupStep =>
        /\ Cardinality(DOMAIN conversation_store') <= KeepSessions
        /\ \A k \in DOMAIN conversation_store' :
              /\ conversation_store'[k] = conversation_store[k]
              /\ conversation_store'[k] # <<>> =>
                    clock - conversation_store'[k][1].updated_at <= MaxAge
        /\ \A d \in DroppedByCount : \A k \in DOMAIN conversation_store' :
              UpdatedKey(conversation_store, d) <= UpdatedKey(conversation_store, k)]_vars

\* the cleanup task has cut the store down to its KeepSessions newest sessions:
\* only the cut re-inserts the keys newest first
C24_Witness ==
    /\ program = "travel" /\ pc = "idle"
    /\ cleanups_due = 0
    /\ Len(store_order) = KeepSessions
    /\ \E i, j \in DOMAIN store_order :
          /\ i < j
          /\ store_order[i][2] > store_order[j][2]
          /\ UpdatedKey(conversation_store, store_order[i])
                > UpdatedKey(conversation_store, store_order[j])

\* the step is one node of the travel graph running
NodeRan == program = "travel" /\ Len(trace') = Len(trace) + 1

\* C25: every node of the travel graph leaves the state's session_id and
\* created_at as process_query built them and sets updated_at to the time
\* the node ran; during the run the state's session_id is the request's.
C25_SessionIdImmutable ==
    /\ []((program = "travel" /\ pc # "idle") => state.session_id = session_id)
    /\ [][NodeRan =>
            /\ state'.session_id = state.session_id
            /\ state'.created_at = state.created_at
            /\ state'.updated_at = clock]_vars

\* a run whose nodes ran later than the initial state was built has ended
C25_Witness ==
    /\ program = "travel" /\ pc = "END"
    /\ Len(trace) = 3
    /\ state.session_id = session_id
    /\ state.created_at < state.updated_at

\* C26: web_scrape returns a JSON-encoded string on every outcome: an object
\* with url and content when the fetch succeeds, an object describing the
\* error when the fetch fails in any way; it never returns a non-string.
C26_WebScrapeReturnsJson ==
    (program = "scrape" /\ scrape.result.type # "none") =>
        /\ scrape.result.type = "str"
        /\ scrape.fetched.kind = "html" =>
              /\ DOMAIN scrape.result.json = {"url", "content"}
              /\ scrape.result.json.url = scrape.url
        /\ scrape.fetched.kind # "html" => "error" \in DOMAIN scrape.result.json

\* C27: no graph contract violation is reachable: in every reachable state of
\* both graphs the label each routing function returns is a key of its edge's
\* mapping, and no run is ever left at an unmapped destination.
C27_NoContractViolation ==
    /\ pc # "graph_contract_error"
    /\ nflPc # "graph_contract_error"
    /\ (program = "travel" /\ pc # "idle") =>
          /\ _route_to_agent(state) \in {"booking", "complaint", "information", "complete"}
          /\ _route_to_agent(state) \in DOMAIN RouterEdges
          /\ _agent_continue_or_complete(state) \in {"continue", "complete"}
          /\ _agent_continue_or_complete(state) \in DOMAIN AgentEdges
    /\ program = "nfl" =>
          /\ should_continue(nflState) \in {"tools", "finalize"}
          /\ should_continue(nflState) \in DOMAIN NflEdges

\* the router's conditional edge has sent a keyword-free query to final_response
C27_Witness ==
    /\ program = "travel" /\ pc = "final_response"
    /\ trace = <<"router">>
    /\ _route_to_agent(state) = "complete"
    /\ state.query_type # None

\* the apology a specialized agent node appends on its error path
ApologyOf(node) ==
    CASE node = "booking_agent" -> BookingApology
      [] node = "complaint_agent" -> ComplaintApology
      [] node = "information_agent" -> InformationApology

\* the step is a specialized agent node ending on its error path
EndsOnErrorPath ==
    /\ program = "travel" /\ pc \in SpecializedNodes
    /\ Len(trace') = Len(trace) + 1
    /\ state'.messages # <<>>
    /\ state'.messages[Len(state'.messages)].content = ApologyOf(pc)

\* C28: a specialized agent node that ends on its error path appends exactly
\* one message, the apology, and leaves every state field other than messages
\* and updated_at (booking_info and agent_responses among them) as on entry.
C28_ErrorPathLeavesState ==
    [][EndsOnErrorPath =>
        /\ state'.messages = Append(state.messages, state'.messages[Len(state'.messages)])
        /\ \A f \in DOMAIN state \ {"messages", "updated_at"} : state'[f] = state[f]]_vars

\* the step is a chat request arriving without a known session id
NewSessionStarts == program = "travel" /\ nRequests' = nRequests + 1 /\ ~resumed'

\* C29: a chat request without a known session id is stored under an id that
\* no session in the store has, so that the stored state of every other
\* session is still there after the id is assigned.
C29_NewSessionIdsUnique ==
    [][NewSessionStarts =>
        /\ session_id' \notin DOMAIN conversation_store
        /\ \A k \in DOMAIN conversation_store : conversation_store'[k] = conversation_store[k]]_vars

\* C30: retry_with_backoff calls func at least once and at most max_retries
\* times, stops at the first call that succeeds and returns its result, raises
\* the last call's exception when every call fails, and never returns without
\* func having succeeded, for every max_retries including 0.
C30_RetryCallsFunc ==
    (program = "retry" /\ retry.status # "loop") =>
        /\ retry.calls >= 1
        /\ retry.calls <= retry.max_retries
        /\ \A i \in 1..(retry.calls - 1) : ~retry.outcomes[i].ok
        /\ retry.status = "returned" =>
              /\ retry.calls >= 1
              /\ retry.outcomes[retry.calls].ok
              /\ retry.result = retry.outcomes[retry.calls].value
        /\ retry.status = "raised" =>
              /\ retry.calls = retry.max_retries
              /\ ~retry.outcomes[retry.calls].ok
              /\ retry.result = retry.outcomes[retry.calls].value

====
